---- MODULE Spec2Model ----
(***************************************************************************)
(* Model of src/app.py: the Streamlit import / search / statistics page.   *)
(*                                                                         *)
(* Texts that the code inspects character by character (ph, dtr and the    *)
(* search filters) are sequences of one-character strings; every other     *)
(* cell value is an atomic string or an integer.                           *)
(***************************************************************************)
EXTENDS Integers, Sequences, FiniteSets, TLC

\* ---------------------------------------------------------------- bounds
MaxRows == 2
MaxRuns == 1
MaxSessionRuns == 2
MaxFaults == 1
MaxRecs == 3
MaxData == 3

\* ------------------------------------------------------------- utilities
Range(f) == {f[x] : x \in DOMAIN f}

RECURSIVE MaxOf(_)
MaxOf(S) ==
    IF S = {} THEN 0
    ELSE LET x == CHOOSE y \in S : TRUE
             m == MaxOf(S \ {x})
         IN IF x > m THEN x ELSE m

Reverse(q) == [k \in 1..Len(q) |-> q[Len(q) + 1 - k]]

DropAt(q, k) == [j \in 1..(Len(q) - 1) |-> IF j < k THEN q[j] ELSE q[j + 1]]

IsPrefix(p, q) == Len(p) <= Len(q) /\ SubSeq(q, 1, Len(p)) = p

\* ------------------------------------------------------- column mapping
RequiredColumns ==
    <<"PH", "DTR", "nombre de planche", "numero de planche",
      "ligne", "position", "niveau">>

COLUMN_MAPPING ==
    [c \in Range(RequiredColumns) |->
        CASE c = "PH" -> "ph"
          [] c = "DTR" -> "dtr"
          [] c = "nombre de planche" -> "nombre_planche"
          [] c = "numero de planche" -> "numero_planche"
          [] c = "ligne" -> "ligne"
          [] c = "position" -> "position"
          [] c = "niveau" -> "niveau"]

InternalColumns == Range(COLUMN_MAPPING)

\* A column the uploaded sheet may carry besides the required ones.
ExtraColumn == "remarque"

\* ------------------------------------------------------- uploaded files
\* Two kinds of spreadsheet row; a cell's value depends on its column and
\* on the kind of its row. The rows of an uploaded sheet alternate between
\* the two kinds, so that a sheet of three rows repeats a ph value.
RowKindAt(i) == IF i % 2 = 1 THEN 1 ELSE 2

CellValue(c, k) ==
    CASE c = "PH" -> IF k = 1 THEN <<"P", "1">> ELSE <<"P", "2">>
      [] c = "DTR" -> <<"D", "1">>
      [] c = "nombre de planche" -> IF k = 1 THEN 3 ELSE 2
      [] c = "numero de planche" -> k
      [] c = "ligne" -> IF k = 1 THEN "L1" ELSE "L2"
      [] c = "position" -> IF k = 1 THEN "Pos1" ELSE "Pos2"
      [] c = "niveau" -> IF k = 1 THEN "N1" ELSE "N2"
      [] OTHER -> IF k = 1 THEN "x" ELSE "y"

\* Header rows of the files a user may upload: the required columns in two
\* orders, the required columns with an extra column, and headers that lack
\* one or several required columns.
ValidHeaders ==
    {RequiredColumns, Reverse(RequiredColumns),
     Append(RequiredColumns, ExtraColumn)}

InvalidHeaders ==
    {DropAt(RequiredColumns, 1), DropAt(RequiredColumns, 7),
     <<ExtraColumn, "DTR", "PH">>}

Headers == ValidHeaders \cup InvalidHeaders

\* pd.read_excel(uploaded_file): the header and one mapping per data row.
ReadExcel(header, n) ==
    [present |-> TRUE,
     columns |-> header,
     rows |-> [i \in 1..n |->
                 [c \in Range(header) |-> CellValue(c, RowKindAt(i))]]]

NoFile == [present |-> FALSE]

UploadableFiles == {ReadExcel(h, n) : h \in Headers, n \in 0..MaxRows}

\* ---------------------------------------------------- import: validation
RECURSIVE MissingFrom(_, _)
MissingFrom(required, columns) ==
    IF required = <<>> THEN <<>>
    ELSE IF Head(required) \in Range(columns)
         THEN MissingFrom(Tail(required), columns)
         ELSE <<Head(required)>> \o MissingFrom(Tail(required), columns)

\* A validation that forgets the last required column.
MissingColumnsButLast(df) ==
    MissingFrom(SubSeq(RequiredColumns, 1, Len(RequiredColumns) - 1), df.columns)

MissingColumns(df) == MissingFrom(RequiredColumns, df.columns)

\* df.rename(columns=COLUMN_MAPPING): mapped labels are replaced, every
\* other column is kept under its own label.
RenameLabel(c) == IF c \in DOMAIN COLUMN_MAPPING THEN COLUMN_MAPPING[c] ELSE c

Rename(df) ==
    [present |-> TRUE,
     columns |-> [k \in 1..Len(df.columns) |-> RenameLabel(df.columns[k])],
     rows |-> [i \in 1..Len(df.rows) |->
                 [n \in {RenameLabel(c) : c \in Range(df.columns)} |->
                     df.rows[i][CHOOSE c \in Range(df.columns) :
                                    RenameLabel(c) = n]]]]

\* row.to_dict(): every column of the row, keyed by its label.
RowToDict(df, i) == df.rows[i]

\* ------------------------------------------------------------ statistics
\* count() in the place of nunique().
NUniqueAsCount(col) == Len(col)

RECURSIVE NUnique(_)
NUnique(col) ==
    IF col = <<>> THEN 0
    ELSE LET front == SubSeq(col, 1, Len(col) - 1)
         IN NUnique(front) + (IF col[Len(col)] \in Range(front) THEN 0 ELSE 1)

RECURSIVE SumOf(_)
SumOf(col) == IF col = <<>> THEN 0 ELSE Head(col) + SumOf(Tail(col))

Column(df, name) == [i \in 1..Len(df.rows) |-> df.rows[i][name]]

\* pd.DataFrame(response.data): the columns are those of the returned rows.
DataFrame(records) ==
    [columns |-> IF records = <<>> THEN {} ELSE DOMAIN records[1],
     rows |-> records]

get_statistics(df) ==
    IF df.rows = <<>> \/ df.columns = {}
    THEN [total |-> 0, unique_ph |-> 0, unique_dtr |-> 0, planches |-> 0]
    ELSE [total |-> Len(df.rows),
          unique_ph |-> NUnique(Column(df, "ph")),
          unique_dtr |-> NUnique(Column(df, "dtr")),
          planches |-> IF "nombre_planche" \in df.columns
                       THEN SumOf(Column(df, "nombre_planche"))
                       ELSE 0]

\* ---------------------------------------------------------------- search
Lower(ch) ==
    CASE ch = "P" -> "p"
      [] ch = "D" -> "d"
      [] OTHER -> ch

\* SQL LIKE, case-insensitively (ILIKE): % matches any run of characters,
\* _ matches any one character, any other character matches itself.
RECURSIVE LikeMatch(_, _)
LikeMatch(s, p) ==
    IF p = <<>> THEN s = <<>>
    ELSE IF Head(p) = "%"
         THEN LikeMatch(s, Tail(p)) \/ (s # <<>> /\ LikeMatch(Tail(s), p))
         ELSE /\ s # <<>>
              /\ (Head(p) = "_" \/ Lower(Head(p)) = Lower(Head(s)))
              /\ LikeMatch(Tail(s), Tail(p))

ILike(value, filter) == LikeMatch(value, <<"%">> \o filter \o <<"%">>)

RECURSIVE SelectSeq2(_, _, _)
SelectSeq2(records, ph, dtr) ==
    IF records = <<>> THEN <<>>
    ELSE LET r == Head(records)
             keep == /\ (ph # <<>> => ILike(r["ph"], ph))
                     /\ (dtr # <<>> => ILike(r["dtr"], dtr))
         IN (IF keep THEN <<r>> ELSE <<>>) \o SelectSeq2(Tail(records), ph, dtr)

search_records(records, ph, dtr) == SelectSeq2(records, ph, dtr)

\* ------------------------------------------------------------ QR encoder
\* The text the location QR code of a row encodes (an f-string of all seven
\* fields) and the text of its board QR code (three fields).
EmplacementPayload(row) ==
    <<<<"PH", row["ph"]>>, <<"DTR", row["dtr"]>>,
      <<"nb_planche", row["nombre_planche"]>>,
      <<"num_planche", row["numero_planche"]>>,
      <<"ligne", row["ligne"]>>, <<"position", row["position"]>>,
      <<"niveau", row["niveau"]>>>>

PlanchePayload(row) ==
    <<<<"ligne", row["ligne"]>>, <<"position", row["position"]>>,
      <<"niveau", row["niveau"]>>>>

\* df.iterrows() labels the rows of a freshly read sheet 0, 1, 2, ...
IndexLabel(i) == i - 1

EmplacementName(i) == <<"emplacement", IndexLabel(i)>>
PlancheName(i) == <<"planche", IndexLabel(i)>>

EmptyDir == [n \in {} |-> <<>>]

\* tempfile.mkdtemp() inside create_qr_code, then qr_image.save(filepath):
\* the file system with directory d created and the image stored in it.
SaveImage(fs, d, name, payload) ==
    [x \in DOMAIN fs \cup {d} |->
        IF x = d THEN [n \in {name} |-> payload] ELSE fs[x]]

MakeDir(fs, d) == [x \in DOMAIN fs \cup {d} |-> IF x = d THEN EmptyDir ELSE fs[x]]

PathExists(fs, path) == path[1] \in DOMAIN fs /\ path[2] \in DOMAIN fs[path[1]]

\* --------------------------------------------------- spreadsheet assembler
SheetHeaders(is_emplacement) ==
    IF is_emplacement THEN <<"PH", "DTR", "QR Code">>
    ELSE <<"Ligne", "Position", "Niveau", "QR Code">>

SheetTitle(is_emplacement) == IF is_emplacement THEN "Emplacements" ELSE "Planches"

\* enumerate(data, 1): the first data row lands on the header row.
RowIdxFromOne(k) == k

\* enumerate(data, 2): the sheet row of the k-th data row (k from 1).
RowIdx(k) == k + 1

\* ws.cell(row, column).value = v
SetCell(cells, r, c, v) ==
    [x \in DOMAIN cells \cup {<<r, c>>} |-> IF x = <<r, c>> THEN v ELSE cells[x]]

\* ws.cell(row, column): the cell is created, empty, when it is not there.
TouchCell(cells, r, c) ==
    IF <<r, c>> \in DOMAIN cells THEN cells ELSE SetCell(cells, r, c, "None")

RECURSIVE WriteCells(_, _, _, _)
WriteCells(cells, r, values, c) ==
    IF c > Len(values) THEN cells
    ELSE WriteCells(SetCell(cells, r, c, values[c]), r, values, c + 1)

RECURSIVE WriteRows(_, _, _, _)
WriteRows(ws, data, headers, k) ==
    IF k > Len(data) THEN ws
    ELSE LET row_data == data[k]
             texts == SubSeq(row_data, 1, Len(row_data) - 1)
             qr_path == row_data[Len(row_data)]
             qr_col == Len(headers)
             written == WriteCells(ws.cells, RowIdx(k), texts, 1)
         IN WriteRows([ws EXCEPT
                          !.cells = TouchCell(written, RowIdx(k), qr_col),
                          !.images = Append(@, [col |-> qr_col,
                                                row |-> RowIdx(k),
                                                path |-> qr_path])],
                      data, headers, k + 1)

create_excel_with_qr_codes(data, is_emplacement) ==
    LET headers == SheetHeaders(is_emplacement)
        blank == [title |-> SheetTitle(is_emplacement),
                  cells |-> [x \in {} |-> "None"],
                  images |-> <<>>]
        headed == [blank EXCEPT !.cells = WriteCells(@, 1, headers, 1)]
    IN WriteRows(headed, data, headers, 1)

max_row(ws) == MaxOf({x[1] : x \in DOMAIN ws.cells})

EmplacementFile == "feuille_emplacement.xlsx"
PlancheFile == "feuille_planche.xlsx"

\* ------------------------------------------------------------------ state
VARIABLES
    store,      \* the rows of table 'emplacements', in insertion order
    tmpfs,      \* temporary directories: directory -> (file name -> content)
    cwd,        \* spreadsheets in the working directory: name -> sheet
    runs,       \* script runs started so far
    faults,     \* failures of the backend or the disk so far
    sess,       \* per browser session: widgets, locals and position
    arg,        \* argument of a direct call of a pure function
    ret         \* result of that call

vars == <<store, tmpfs, cwd, runs, faults, sess, arg, ret>>

Users == {1, 2}

\* What a user types into "Rechercher par PH" and "Rechercher par DTR":
\* nothing, a text in another letter case, texts holding the character _.
SearchInputs ==
    {<< <<>>, <<>> >>, << <<"p", "1">>, <<>> >>, << <<"_", "2">>, <<"d">> >>}

NoCreated == [dirs |-> {}, files |-> {}, sheets |-> {}]

IdleSession ==
    [pc |-> "idle",
     uploaded_file |-> NoFile,
     button |-> FALSE, ph_search |-> <<>>, dtr_search |-> <<>>,
     df |-> NoFile, i |-> 0, temp_dir |-> <<>>, ndirs |-> 0,
     emplacement_data |-> <<>>, planche_data |-> <<>>,
     success |-> FALSE, error |-> "none",
     dl_emp |-> <<>>, dl_pl |-> <<>>,
     sidebar |-> <<>>, results |-> <<>>, stats |-> <<>>,
     \* history of the current run, kept for stating its properties
     upBase |-> 0, runBase |-> 0, created |-> NoCreated,
     log |-> <<>>, fault |-> FALSE]

Init ==
    /\ store = <<>>
    /\ tmpfs = [d \in {} |-> EmptyDir]
    /\ cwd = [n \in {} |-> <<>>]
    /\ runs = 0
    /\ faults = 0
    /\ sess = [s \in Users |-> IdleSession]
    /\ arg = <<>>
    /\ ret = <<>>

Pure == <<arg, ret>>

\* The sidebar and the data tab show statistics only of a non-empty table.
ShownStatistics(records) ==
    IF records = <<>> THEN <<>> ELSE <<get_statistics(DataFrame(records))>>

\* ------------------------------------------------------- start of a run
\* Streamlit runs the whole script again on every widget interaction. The
\* sidebar (lines 209-223) is rendered first.
BeginRun(s, file, btn, ph, dtr, upBase) ==
    /\ sess[s].pc = "idle"
    /\ runs' = runs + 1
    /\ sess' = [sess EXCEPT ![s] =
                  [IdleSession EXCEPT
                      !.pc = IF file.present THEN "read" ELSE "tab2",
                      !.uploaded_file = file,
                      !.button = btn, !.ph_search = ph, !.dtr_search = dtr,
                      !.ndirs = sess[s].ndirs,
                      !.sidebar = ShownStatistics(store),
                      !.upBase = upBase, !.runBase = Len(store)]]
    /\ UNCHANGED <<store, tmpfs, cwd, faults, Pure>>

\* The user picks a file in the uploader.
Upload(s) ==
    \E f \in UploadableFiles :
        BeginRun(s, f, FALSE, sess[s].ph_search, sess[s].dtr_search, Len(store))

\* The user clears the uploader.
RemoveFile(s) ==
    /\ sess[s].uploaded_file.present
    /\ BeginRun(s, NoFile, FALSE, sess[s].ph_search, sess[s].dtr_search, 0)

\* The user edits the search texts and presses "Rechercher"; whatever is in
\* the uploader stays selected.
Search(s) ==
    \E q \in SearchInputs :
        BeginRun(s, sess[s].uploaded_file, TRUE, q[1], q[2], sess[s].upBase)

\* ------------------------------------------------------- import pipeline
Logged(r, what, k) == [r EXCEPT !.log = Append(@, <<what, k>>)]

\* An exception caught inside the loop: the error is shown and the loop
\* goes on with the next row.
RaisedAndContinued(r, what, k) ==
    [Logged(Logged(r, what, k), "error", 0) EXCEPT
        !.error = "exception", !.i = r.i + 1]

\* except Exception as e: st.error(...); the script goes on with tab2.
Raised(r, what, k) ==
    [Logged(Logged(r, what, k), "error", 0) EXCEPT
        !.pc = "tab2", !.error = "exception"]

\* A failure of the backend or of the disk, as opposed to one the program
\* brings about itself.
CanFail == faults < MaxFaults

Injected(r, what, k) == [Raised(r, what, k) EXCEPT !.fault = TRUE]

\* Lines 237-246: read, validate, rename.
Validate(s) ==
    /\ sess[s].pc = "read"
    /\ LET r == Logged(sess[s], "validate", 0)
           df == r.uploaded_file
       IN sess' = [sess EXCEPT ![s] =
                     IF MissingColumns(df) # <<>>
                     THEN [r EXCEPT !.pc = "tab2", !.error = "missing"]
                     ELSE [r EXCEPT !.pc = "persist", !.df = Rename(df), !.i = 1]]
    /\ UNCHANGED <<store, tmpfs, cwd, runs, faults, Pure>>

\* Lines 249-251: one insert per row; an insert may fail in the backend.
Insert(s) ==
    /\ sess[s].pc = "persist"
    /\ sess[s].i <= Len(sess[s].df.rows)
    /\ LET r == sess[s]
       IN \/ /\ store' = Append(store, RowToDict(r.df, r.i))
             /\ sess' = [sess EXCEPT ![s] =
                           [Logged(r, "insert", r.i) EXCEPT !.i = r.i + 1]]
             /\ faults' = faults
          \/ /\ CanFail
             /\ faults' = faults + 1
             /\ store' = store
             /\ sess' = [sess EXCEPT ![s] = Injected(r, "insert failed", r.i)]
    /\ UNCHANGED <<tmpfs, cwd, runs, Pure>>

\* tempfile.mkdtemp() returns a directory no one else has: the name is made
\* of the session and of the number of directories it has asked for.
FreshDir(s) == <<s, sess[s].ndirs + 1>>

\* Lines 253-258: success message, temp_dir = tempfile.mkdtemp().
Persisted(s) ==
    /\ sess[s].pc = "persist"
    /\ sess[s].i > Len(sess[s].df.rows)
    /\ tmpfs' = MakeDir(tmpfs, FreshDir(s))
    /\ sess' = [sess EXCEPT ![s] =
                  [Logged(sess[s], "persisted", 0) EXCEPT
                      !.pc = "gen_emp", !.success = TRUE, !.i = 1,
                      !.temp_dir = FreshDir(s), !.ndirs = @ + 1,
                      !.created.dirs = @ \cup {FreshDir(s)}]]
    /\ UNCHANGED <<store, cwd, runs, faults, Pure>>

\* All location images first: the board image of the row is not made next.
EmplacementDoneNextRow(r, path) ==
    [r EXCEPT !.i = r.i + 1,
              !.emplacement_data =
                  Append(@, <<r.df.rows[r.i]["ph"], r.df.rows[r.i]["dtr"], path>>)]

EmplacementDone(r, path) ==
    [r EXCEPT !.pc = "gen_pl",
              !.emplacement_data =
                  Append(@, <<r.df.rows[r.i]["ph"], r.df.rows[r.i]["dtr"], path>>)]

PlancheDone(r, path) ==
    [r EXCEPT !.pc = "gen_emp", !.i = r.i + 1,
              !.planche_data =
                  Append(@, <<r.df.rows[r.i]["ligne"], r.df.rows[r.i]["position"],
                              r.df.rows[r.i]["niveau"], path>>)]

\* create_qr_code (lines 134-148) for one image and the append that follows
\* it: the encoding may fail before anything is written, or the write may
\* fail after mkdtemp.
CreateQr(s, r, name, payload, is_emplacement) ==
    LET what == IF is_emplacement THEN "emplacement" ELSE "planche"
        dir == FreshDir(s)
        path == <<dir, name>>
        made == [Logged(r, what, r.i) EXCEPT
                    !.ndirs = @ + 1,
                    !.created.dirs = @ \cup {dir},
                    !.created.files = @ \cup {path}]
    IN \/ /\ tmpfs' = SaveImage(tmpfs, dir, name, payload)
          /\ sess' = [sess EXCEPT ![s] =
                        IF is_emplacement THEN EmplacementDone(made, path)
                        ELSE PlancheDone(made, path)]
          /\ faults' = faults
       \/ /\ CanFail
          /\ faults' = faults + 1
          /\ tmpfs' = tmpfs
          /\ sess' = [sess EXCEPT ![s] = Injected(r, "encode failed", r.i)]
       \/ /\ CanFail
          /\ faults' = faults + 1
          /\ tmpfs' = MakeDir(tmpfs, dir)
          /\ sess' = [sess EXCEPT ![s] =
                        Injected([r EXCEPT !.ndirs = @ + 1,
                                           !.created.dirs = @ \cup {dir}],
                                 "save failed", r.i)]

\* Lines 261-268.
GenerateEmplacement(s) ==
    /\ sess[s].pc = "gen_emp"
    /\ sess[s].i <= Len(sess[s].df.rows)
    /\ CreateQr(s, sess[s], EmplacementName(sess[s].i),
                EmplacementPayload(sess[s].df.rows[sess[s].i]), TRUE)
    /\ UNCHANGED <<store, cwd, runs, Pure>>

\* Lines 270-278.
GeneratePlanche(s) ==
    /\ sess[s].pc = "gen_pl"
    /\ CreateQr(s, sess[s], PlancheName(sess[s].i),
                PlanchePayload(sess[s].df.rows[sess[s].i]), FALSE)
    /\ UNCHANGED <<store, cwd, runs, Pure>>

ImagePath(row_data) == row_data[Len(row_data)]

\* One call of create_excel_with_qr_codes: XLImage and wb.save read every
\* image file; wb.save(filename) writes into the working directory.
Assemble(s, r, data, name, is_emplacement, what, next) ==
    IF \A k \in 1..Len(data) : PathExists(tmpfs, ImagePath(data[k]))
    THEN \/ /\ cwd' = [n \in DOMAIN cwd \cup {name} |->
                         IF n = name
                         THEN create_excel_with_qr_codes(data, is_emplacement)
                         ELSE cwd[n]]
            /\ sess' = [sess EXCEPT ![s] =
                          [Logged(r, what, 0) EXCEPT
                              !.pc = next, !.created.sheets = @ \cup {name}]]
            /\ faults' = faults
         \/ /\ CanFail
            /\ faults' = faults + 1
            /\ cwd' = cwd
            /\ sess' = [sess EXCEPT ![s] = Injected(r, "assemble failed", 0)]
    ELSE /\ cwd' = cwd
         /\ faults' = faults
         /\ sess' = [sess EXCEPT ![s] = Raised(r, "image missing", 0)]

\* Line 280.
AssembleEmplacement(s) ==
    /\ sess[s].pc = "gen_emp"
    /\ sess[s].i > Len(sess[s].df.rows)
    /\ Assemble(s, sess[s], sess[s].emplacement_data, EmplacementFile, TRUE,
                "assemble emplacement", "asm_pl")
    /\ UNCHANGED <<store, tmpfs, runs, Pure>>

\* Line 281.
AssemblePlanche(s) ==
    /\ sess[s].pc = "asm_pl"
    /\ Assemble(s, sess[s], sess[s].planche_data, PlancheFile, FALSE,
                "assemble planche", "dl_emp")
    /\ UNCHANGED <<store, tmpfs, runs, Pure>>

\* open(file, 'rb') and st.download_button(data=f): the button carries what
\* the file holds at that moment; a missing file raises, and the read may
\* fail.
Deliver(s, r, name, what, next, field) ==
    IF name \in DOMAIN cwd
    THEN \/ /\ sess' = [sess EXCEPT ![s] =
                          [Logged(r, what, 0) EXCEPT
                              !.pc = next, ![field] = <<cwd[name]>>]]
            /\ faults' = faults
         \/ /\ CanFail
            /\ faults' = faults + 1
            /\ sess' = [sess EXCEPT ![s] = Injected(r, "deliver failed", 0)]
    ELSE /\ sess' = [sess EXCEPT ![s] = Raised(r, "open failed", 0)]
         /\ faults' = faults

\* Lines 285-291.
DeliverEmplacement(s) ==
    /\ sess[s].pc = "dl_emp"
    /\ Deliver(s, sess[s], EmplacementFile, "deliver emplacement", "dl_pl", "dl_emp")
    /\ UNCHANGED <<store, tmpfs, cwd, runs, Pure>>

\* Lines 294-300.
DeliverPlanche(s) ==
    /\ sess[s].pc = "dl_pl"
    /\ Deliver(s, sess[s], PlancheFile, "deliver planche", "cleanup", "dl_pl")
    /\ UNCHANGED <<store, tmpfs, cwd, runs, Pure>>

\* The directories the cleanup removes: temp_dir, emptied file by file.
CleanedDirs(r) == {r.temp_dir}

Without(f, gone) == [x \in DOMAIN f \ gone |-> f[x]]

\* Lines 303-307: empty and remove temp_dir, then remove the two
\* spreadsheets; os.remove raises when the file is not there.
Cleanup(s) ==
    /\ sess[s].pc = "cleanup"
    /\ LET r == sess[s]
       IN /\ tmpfs' = Without(tmpfs, CleanedDirs(r))
          /\ IF EmplacementFile \notin DOMAIN cwd
             THEN /\ cwd' = cwd
                  /\ sess' = [sess EXCEPT ![s] = Raised(r, "remove failed", 1)]
             ELSE IF PlancheFile \notin DOMAIN cwd
             THEN /\ cwd' = Without(cwd, {EmplacementFile})
                  /\ sess' = [sess EXCEPT ![s] = Raised(r, "remove failed", 2)]
             ELSE /\ cwd' = Without(cwd, {EmplacementFile, PlancheFile})
                  /\ sess' = [sess EXCEPT ![s] =
                                [Logged(r, "cleanup", 0) EXCEPT !.pc = "tab2"]]
    /\ UNCHANGED <<store, runs, faults, Pure>>

\* ------------------------------------------------------ search and data
\* Lines 322-329: the search runs when the button was pressed.
SearchTab(s) ==
    /\ sess[s].pc = "tab2"
    /\ sess' = [sess EXCEPT ![s] =
                  [@ EXCEPT !.pc = "tab3",
                            !.results =
                                IF sess[s].button
                                THEN <<search_records(store, sess[s].ph_search,
                                                      sess[s].dtr_search)>>
                                ELSE <<>>]]
    /\ UNCHANGED <<store, tmpfs, cwd, runs, faults, Pure>>

\* Lines 338-361: statistics of all records; the run ends.
DataTab(s) ==
    /\ sess[s].pc = "tab3"
    /\ sess' = [sess EXCEPT ![s] =
                  [@ EXCEPT !.pc = "idle", !.stats = ShownStatistics(store)]]
    /\ UNCHANGED <<store, tmpfs, cwd, runs, faults, Pure>>

\* The steps of a run.
Script(s) ==
    \/ Validate(s)
    \/ Insert(s)
    \/ Persisted(s)
    \/ GenerateEmplacement(s)
    \/ GeneratePlanche(s)
    \/ AssembleEmplacement(s)
    \/ AssemblePlanche(s)
    \/ DeliverEmplacement(s)
    \/ DeliverPlanche(s)
    \/ Cleanup(s)
    \/ SearchTab(s)
    \/ DataTab(s)

\* One user, MaxRuns runs of the script: an upload or a search.
Next ==
    \/ runs < MaxRuns /\ Upload(1)
    \/ runs < MaxRuns /\ Search(1)
    \/ Script(1)

Spec == Init /\ [][Next]_vars

\* One user, a session of MaxSessionRuns runs.
NextSession ==
    \/ runs < MaxSessionRuns /\ Upload(1)
    \/ runs < MaxSessionRuns /\ RemoveFile(1)
    \/ runs < MaxSessionRuns /\ Search(1)
    \/ Script(1)

SpecSession == Init /\ [][NextSession]_vars

\* Two users at once, each in a session (a thread) of the same server, each
\* uploading files; no backend or disk failure happens.
InitConc ==
    /\ store = <<>>
    /\ tmpfs = [d \in {} |-> EmptyDir]
    /\ cwd = [n \in {} |-> <<>>]
    /\ runs = 0
    /\ faults = MaxFaults
    /\ sess = [s \in Users |-> IdleSession]
    /\ arg = <<>>
    /\ ret = <<>>

NextConc ==
    \E s \in Users :
        \/ runs < MaxSessionRuns /\ Upload(s)
        \/ Script(s)

SpecConc == InitConc /\ [][NextConc]_vars

\* ------------------------------------------- direct calls: statistics
\* Rows as the backend returns them, reduced to the columns get_statistics
\* reads; a table may lack the column nombre_planche.
PhValues == {<<"P", "1">>, <<"P", "2">>}
DtrValues == {<<"D", "1">>, <<"D", "2">>}
PlancheCounts == {2, 3}

StatRecords(with_planches) ==
    IF with_planches
    THEN [ph : PhValues, dtr : DtrValues, nombre_planche : PlancheCounts]
    ELSE [ph : PhValues, dtr : DtrValues]

InitStats ==
    /\ store = <<>>
    /\ tmpfs = [d \in {} |-> EmptyDir]
    /\ cwd = [n \in {} |-> <<>>]
    /\ runs = 0
    /\ faults = 0
    /\ sess = [s \in Users |-> IdleSession]
    /\ arg = <<>>
    /\ ret = <<>>

Rest == <<store, tmpfs, cwd, runs, faults, sess>>

\* One more row in the table the statistics are taken of.
AddRecord ==
    /\ Len(arg) < MaxRecs
    /\ \E r \in StatRecords(TRUE) \cup StatRecords(FALSE) :
          /\ arg # <<>> => DOMAIN r = DOMAIN arg[1]
          /\ arg' = Append(arg, r)
    /\ ret' = <<>>
    /\ UNCHANGED Rest

CallStatistics ==
    /\ ret = <<>>
    /\ ret' = <<get_statistics(DataFrame(arg))>>
    /\ UNCHANGED <<arg, Rest>>

NextStats == AddRecord \/ CallStatistics

SpecStats == InitStats /\ [][NextStats]_vars

\* ------------------------------------------- direct calls: assembler
\* A data row as the import builds it: the text cells of a row of kind k
\* and the path of its image.
DataRow(is_emplacement, k, path) ==
    IF is_emplacement
    THEN <<CellValue("PH", k), CellValue("DTR", k), path>>
    ELSE <<CellValue("ligne", k), CellValue("position", k),
           CellValue("niveau", k), path>>

InitAssemble ==
    /\ store = <<>>
    /\ tmpfs = [d \in {} |-> EmptyDir]
    /\ cwd = [n \in {} |-> <<>>]
    /\ runs = 0
    /\ faults = 0
    /\ sess = [s \in Users |-> IdleSession]
    /\ arg \in {[data |-> <<>>, is_emplacement |-> b] : b \in BOOLEAN}
    /\ ret = <<>>

AddDataRow ==
    /\ Len(arg.data) < MaxData
    /\ \E k \in {1, 2}, u \in Users :
          LET i == Len(arg.data) + 1
              name == IF arg.is_emplacement THEN EmplacementName(i)
                      ELSE PlancheName(i)
          IN arg' = [arg EXCEPT !.data =
                        Append(@, DataRow(arg.is_emplacement, k, <<<<u, i>>, name>>))]
    /\ ret' = <<>>
    /\ UNCHANGED Rest

CallAssemble ==
    /\ ret = <<>>
    /\ ret' = <<create_excel_with_qr_codes(arg.data, arg.is_emplacement)>>
    /\ UNCHANGED <<arg, Rest>>

NextAssemble == AddDataRow \/ CallAssemble

SpecAssemble == InitAssemble /\ [][NextAssemble]_vars

\* ================================================================ claims
HasAllRequired(file) ==
    \A c \in Range(RequiredColumns) : c \in Range(file.columns)

DisplayNameOf(n) == CHOOSE c \in DOMAIN COLUMN_MAPPING : COLUMN_MAPPING[c] = n

\* The record a sheet row stands for: its seven required cells under their
\* internal names.
ExpectedRecord(row) == [n \in InternalColumns |-> row[DisplayNameOf(n)]]

ExpectedRecords(file) ==
    [i \in 1..Len(file.rows) |-> ExpectedRecord(file.rows[i])]

\* The import part of the current run is over.
ImportEnded(r) == r.log # <<>> /\ r.pc \in {"tab2", "tab3", "idle"}

RowCount(r) == Len(r.uploaded_file.rows)

InsertLog(N) == [k \in 1..N |-> <<"insert", k>>]

GenerateLog(N) ==
    [j \in 1..(2 * N) |->
        IF j % 2 = 1 THEN <<"emplacement", (j + 1) \div 2>>
        ELSE <<"planche", j \div 2>>]

ExpectedLog(N) ==
    <<<<"validate", 0>>>> \o InsertLog(N) \o <<<<"persisted", 0>>>>
    \o GenerateLog(N)
    \o <<<<"assemble emplacement", 0>>, <<"assemble planche", 0>>,
         <<"deliver emplacement", 0>>, <<"deliver planche", 0>>,
         <<"cleanup", 0>>>>

\* The steps a run has taken, without the record of the failure that ended it.
StepsOf(log) ==
    IF Len(log) >= 2 /\ log[Len(log)] = <<"error", 0>>
    THEN SubSeq(log, 1, Len(log) - 2)
    ELSE log

Inserted(r) == Cardinality({j \in 1..Len(r.log) : r.log[j][1] = "insert"})

\* The rows store holds beyond position base are the first m rows of the
\* file, in source order, field for field.
HoldsFirstRows(base, file, m) ==
    /\ Len(store) = base + m
    /\ \A j \in 1..m : \A n \in InternalColumns :
          store[base + j][n] = file.rows[j][DisplayNameOf(n)]

\* C1: an uploaded file with all seven required columns (any order, extra
\* columns allowed) is imported with success, and the store gains, for that
\* uploaded file, exactly one record per row, each holding exactly the seven
\* renamed fields.
C1_ImportStoresEachRowOnce ==
    \A s \in Users :
        LET r == sess[s]
        IN (ImportEnded(r) /\ HasAllRequired(r.uploaded_file) /\ ~r.fault)
           => /\ r.success
              /\ r.error = "none"
              /\ SubSeq(store, r.upBase + 1, Len(store))
                    = ExpectedRecords(r.uploaded_file)

\* C2: a file that lacks a required column is rejected with the validation
\* error and the run stops before Persist: no new record, no image, no
\* directory, no spreadsheet, nothing to download.
C2_MissingColumnRejected ==
    \A s \in Users :
        LET r == sess[s]
        IN (r.log # <<>> /\ ~HasAllRequired(r.uploaded_file))
           => /\ r.error = "missing"
              /\ ~r.success
              /\ r.pc \in {"tab2", "tab3", "idle"}
              /\ r.log = <<<<"validate", 0>>>>
              /\ Len(store) = r.runBase
              /\ r.created = NoCreated
              /\ r.emplacement_data = <<>> /\ r.planche_data = <<>>
              /\ r.dl_emp = <<>> /\ r.dl_pl = <<>>

C2_Witness ==
    /\ sess[1].pc = "idle"
    /\ sess[1].error = "missing"
    /\ Len(sess[1].uploaded_file.rows) = 2
    /\ ExtraColumn \in Range(sess[1].uploaded_file.columns)

\* C3: once a step after validation has raised (an insert, a QR encoding
\* or its write, an assembly, a delivery), the run takes no further step of
\* the import and shows the error; the rows inserted before the failure
\* stay in the store: the first k-1 rows when the k-th insert failed (no
\* later row is attempted), all rows when a later step failed.
C3_FailureAbortsKeepsRows ==
    \A s \in Users :
        LET r == sess[s]
            n == Len(r.log)
            file == r.uploaded_file
        IN r.error = "exception"
           => /\ n >= 3
              /\ r.log[n] = <<"error", 0>>
              /\ IsPrefix(SubSeq(r.log, 1, n - 2), ExpectedLog(RowCount(r)))
              /\ r.pc \in {"tab2", "tab3", "idle"}
              /\ HoldsFirstRows(r.runBase, file, Inserted(r))
              /\ IF r.log[n - 1][1] = "insert failed"
                 THEN /\ Inserted(r) = r.log[n - 1][2] - 1
                      /\ r.created = NoCreated
                      /\ ~r.success
                 ELSE Inserted(r) = RowCount(r)
              /\ r.log[n - 1][1] \in {"insert failed", "encode failed",
                                      "save failed", "assemble failed"}
                    => r.dl_emp = <<>> /\ r.dl_pl = <<>>
              /\ r.log[n - 1][1] = "deliver failed" => r.dl_pl = <<>>
              /\ r.log[n - 1][1] \in {"insert failed", "encode failed", "save failed"}
                    => r.created.sheets = {}

C3_Witness ==
    /\ sess[1].pc = "idle"
    /\ sess[1].error = "exception"
    /\ sess[1].log[Len(sess[1].log) - 1] = <<"insert failed", 2>>
    /\ Len(store) = sess[1].runBase + 1

\* C4: a search, or a view of the data panel, leaves the store as it was,
\* whether or not a file is still selected in the uploader: during and
\* after a run started by the search button the store holds what it held
\* when the button was pressed.
C4_SearchLeavesStore ==
    \A s \in Users : sess[s].button => Len(store) = sess[s].runBase

\* C5: after an import run that completed (its last step is the cleanup),
\* nothing the run created is left: no directory, no image file, no
\* spreadsheet.
C5_CleanupRemovesAll ==
    \A s \in Users :
        LET r == sess[s]
        IN (ImportEnded(r) /\ r.log[Len(r.log)] = <<"cleanup", 0>>)
           => /\ r.created.dirs \cap DOMAIN tmpfs = {}
              /\ \A f \in r.created.files : ~PathExists(tmpfs, f)
              /\ r.created.sheets \cap DOMAIN cwd = {}

\* text occurs in value as it stands (letter case apart).
Contains(value, text) ==
    \E o \in 0..(Len(value) - Len(text)) :
        \A j \in 1..Len(text) : Lower(value[o + j]) = Lower(text[j])

LiteralMatch(rec, ph, dtr) ==
    /\ (ph = <<>> \/ Contains(rec["ph"], ph))
    /\ (dtr = <<>> \/ Contains(rec["dtr"], dtr))

\* C6: a search returns exactly the stored records whose ph contains the ph
\* text and whose dtr contains the dtr text, an empty text being no
\* constraint; the texts are literal, not patterns.
C6_SearchIsLiteralSubstring ==
    \A s \in Users :
        LET r == sess[s]
        IN (r.pc \in {"tab3", "idle"} /\ r.results # <<>>)
           => r.results[1] =
                 SelectSeq(store, LAMBDA rec : LiteralMatch(rec, r.ph_search, r.dtr_search))

\* C7: N data rows give a sheet of N+1 rows and N images; row 1 holds the
\* headers, sheet row i+1 holds the text cells of the i-th data row, and
\* the i-th image is that row's, anchored in the last header column of
\* sheet row i+1.
C7_SheetRowsAndImages ==
    ret # <<>>
    => LET ws == ret[1]
           N == Len(arg.data)
           headers == SheetHeaders(arg.is_emplacement)
           H == Len(headers)
       IN /\ max_row(ws) = N + 1
          /\ Len(ws.images) = N
          /\ DOMAIN ws.cells = (1..(N + 1)) \X (1..H)
          /\ \A c \in 1..H : ws.cells[<<1, c>>] = headers[c]
          /\ \A i \in 1..N :
                /\ \A c \in 1..(H - 1) : ws.cells[<<i + 1, c>>] = arg.data[i][c]
                /\ ws.images[i] = [col |-> H, row |-> i + 1, path |-> arg.data[i][H]]

C7_Witness ==
    /\ ret # <<>>
    /\ Len(arg.data) = 3
    /\ ~arg.is_emplacement
    /\ arg.data[1][1] # arg.data[2][1]

RECURSIVE WeightedCount(_, _)
WeightedCount(values, records) ==
    IF values = {} THEN 0
    ELSE LET v == CHOOSE x \in values : TRUE
         IN v * Cardinality({i \in 1..Len(records) : records[i]["nombre_planche"] = v})
            + WeightedCount(values \ {v}, records)

\* C8: the statistics of a record set are its number of rows, its number of
\* distinct ph values, its number of distinct dtr values and the sum of
\* nombre_planche (0 without that column); all four are 0 for the empty
\* set, and Unique PH is below Total Records when two rows share a ph.
C8_Statistics ==
    ret # <<>>
    => LET st == ret[1]
           n == Len(arg)
       IN /\ st.total = n
          /\ st.unique_ph = Cardinality({arg[i]["ph"] : i \in 1..n})
          /\ st.unique_dtr = Cardinality({arg[i]["dtr"] : i \in 1..n})
          /\ st.planches =
                IF n > 0 /\ "nombre_planche" \in DOMAIN arg[1]
                THEN WeightedCount(PlancheCounts, arg)
                ELSE 0
          /\ n = 0 => st = [total |-> 0, unique_ph |-> 0,
                            unique_dtr |-> 0, planches |-> 0]
          /\ (\E i, j \in 1..n : i # j /\ arg[i]["ph"] = arg[j]["ph"])
                => st.unique_ph < st.total

C8_Witness ==
    /\ ret # <<>>
    /\ Len(arg) = 3
    /\ arg[1]["ph"] = arg[3]["ph"]
    /\ arg[1]["ph"] # arg[2]["ph"]
    /\ "nombre_planche" \in DOMAIN arg[1]
    /\ ret[1].planches = 8

\* C9: a run takes the steps validate, insert row 1..N, generate the
\* location image then the board image of row 1, ..., of row N, assemble
\* the two sheets, deliver them, clean up, in that order and each once:
\* the rows are inserted in source order, all of them before the first
\* image exists, the images are named after their row, and no sheet is
\* written before all 2N images exist.
C9_StepOrder ==
    \A s \in Users :
        LET r == sess[s]
            file == r.uploaded_file
            N == RowCount(r)
            E == Len(r.emplacement_data)
            P == Len(r.planche_data)
            imgs == {r.emplacement_data[j][3] : j \in 1..E}
                        \cup {r.planche_data[j][4] : j \in 1..P}
        IN (r.log # <<>> /\ HasAllRequired(file))
           => /\ IsPrefix(StepsOf(r.log), ExpectedLog(N))
              /\ HoldsFirstRows(r.runBase, file, Inserted(r))
              /\ r.created.files # {} => Inserted(r) = N
              /\ P <= E /\ E <= P + 1 /\ E <= N
              /\ \A j \in 1..E : r.emplacement_data[j][3][2] = EmplacementName(j)
              /\ \A j \in 1..P : r.planche_data[j][4][2] = PlancheName(j)
              /\ r.created.files = imgs
              /\ \A f \in imgs : PathExists(tmpfs, f)
              /\ r.created.sheets # {} => E = N /\ P = N
              /\ PlancheFile \in r.created.sheets => EmplacementFile \in r.created.sheets
              /\ r.dl_emp # <<>> => r.created.sheets = {EmplacementFile, PlancheFile}
              /\ r.dl_pl # <<>> => r.dl_emp # <<>>

C9_Witness ==
    /\ sess[1].pc = "idle"
    /\ sess[1].uploaded_file.present
    /\ RowCount(sess[1]) = 2
    /\ sess[1].log = ExpectedLog(2)

\* C10: two users importing at once do not get in each other's way through
\* the working directory: no run fails for a file another run wrote or
\* removed, and the sheets a session offers for download are the ones
\* assembled from its own rows.
C10_NoInterference ==
    \A s \in Users :
        LET r == sess[s]
        IN /\ r.error # "exception"
           /\ r.dl_emp # <<>>
                 => r.dl_emp[1] = create_excel_with_qr_codes(r.emplacement_data, TRUE)
           /\ r.dl_pl # <<>>
                 => r.dl_pl[1] = create_excel_with_qr_codes(r.planche_data, FALSE)

====
